---------------------------- MODULE Spec2Model ----------------------------
(***************************************************************************)
(* The call-ingestion service of main.go: a read-through cache (three maps *)
(* under one sync.RWMutex) in front of a relational store, the preload of  *)
(* the cache at startup, and the createCall handler that resolves a        *)
(* request's campaign, voice and response category through the cache and   *)
(* inserts the call row.                                                   *)
(*                                                                         *)
(* A goroutine serving a request is a task.  Every cache access, lock      *)
(* operation and store call of a task is one step, so that all             *)
(* interleavings of concurrent requests are explored.  The store is an     *)
(* independent database: its tables may change at any time and any query   *)
(* may fail.  Table names are taken to be unique keys of the voices and    *)
(* response_categories tables.                                             *)
(***************************************************************************)
EXTENDS Integers, FiniteSets, Sequences, TLC

\* ------------------------------------------------------------- bounds
\* the requests served, each by a task of its own, and the changes other
\* clients make to the lookup tables
NumTasks == 2
MaxStoreChanges == 1

Tasks == 1..NumTasks
NoTask == 0

\* the keys that requests name and the rows that the tables may hold
CampaignIds == {5}
Ids == {1, 2}
VoiceNames == {"Aria"}
CategoryNames == {"Sale"}
\* a *string of the request that is nil (the JSON field was omitted)
NilStr == "<nil>"
Numbers == {"", "15551234567"}

\* the three mappings of Cache, by the name of their field
Mappings == {"campaigns", "voices", "responseCategories"}
NameMappings == {"voices", "responseCategories"}

\* HTTP statuses of net/http
StatusCreated == 201
StatusBadRequest == 400
StatusInternalServerError == 500

VARIABLES
    db,        \* the store: the tables voices, responseCategories, campaigns
    cache,     \* the Cache object: its three maps
    mu,        \* cache.mu: the readers holding it, the writer holding or awaiting it
    mainpc,    \* position of main()
    pc,        \* pc[t]: position of task t inside createCall and the function it called
    req,       \* req[t]: the bound CallRequest
    loc,       \* loc[t]: the locals of the resolution function t is in
    cc,        \* cc[t]: the locals and the response of createCall, and what the request did
    nchg,      \* number of changes made to the store's tables so far
    hist       \* history of the run (what was logged, which keys raced, ...)

vars == <<db, cache, mu, mainpc, pc, req, loc, cc, nchg, hist>>

\* ------------------------------------------------------------- maps
\* a Go map is a function on the set of its keys
EmptyMap == [k \in {} |-> 0]
Has(m, k) == k \in DOMAIN m
Put(m, k, v) == [x \in (DOMAIN m) \cup {k} |-> IF x = k THEN v ELSE m[x]]
Del(m, k) == [x \in (DOMAIN m) \ {k} |-> m[x]]
\* all maps from a subset of K to V
PartialMaps(K, V) == UNION {[D -> V] : D \in SUBSET K}


\* ------------------------------------------------------------- the store
\* A table of (id, name) rows is the map name -> id; client_campaign_model is
\* the map id -> is_enabled.  The service only ever inserts into the calls
\* table: the row a request inserted is counted in the request's record.
Tables ==
    [voices : PartialMaps(VoiceNames, Ids),
     responseCategories : PartialMaps(CategoryNames, Ids),
     campaigns : PartialMaps(CampaignIds, BOOLEAN)]

\* SELECT COUNT(*) FROM client_campaign_model WHERE id = $1
CountCampaign(id) == IF Has(db.campaigns, id) THEN 1 ELSE 0

\* SELECT id, name FROM <table>: the rows of a name table
SelectAll(table) == {[id |-> table[n], name |-> n] : n \in DOMAIN table}

\* fault: the preload query of campaigns without its WHERE is_enabled = true
SelectEnabledCampaigns_AllRows == DOMAIN db.campaigns

\* SELECT id FROM client_campaign_model WHERE is_enabled = true
SelectEnabledCampaigns == {id \in DOMAIN db.campaigns : db.campaigns[id] = TRUE}

\* the loop over rows.Next() of a name table: m[name] = id for each row
RECURSIVE PopulateNames(_, _)
PopulateNames(m, rows) ==
    IF rows = {} THEN m
    ELSE LET r == CHOOSE x \in rows : TRUE
         IN PopulateNames(Put(m, r.name, r.id), rows \ {r})

\* the loop over rows.Next() of the campaign ids: m[id] = true for each row
RECURSIVE PopulateCampaigns(_, _)
PopulateCampaigns(m, ids) ==
    IF ids = {} THEN m
    ELSE LET i == CHOOSE x \in ids : TRUE
         IN PopulateCampaigns(Put(m, i, TRUE), ids \ {i})

\* ------------------------------------------------------------- tasks
\* The values of the fields of a request body.  req[t] holds the fields that
\* createCall has read so far: a field is drawn when the handler first reads
\* it (no step depends on a field before that), and is nil until then.
Voices == {NilStr, ""} \cup VoiceNames
Categories == {NilStr, ""} \cup CategoryNames

NoRequest == [number |-> "", campaign |-> 0, voice |-> NilStr, category |-> NilStr]

\* the locals of campaignExists / getVoiceID / getResponseCategoryID; m names
\* the mapping the function works on, nq counts the store queries of the call
NoLoc == [m |-> "", id |-> 0, exists |-> FALSE, found |-> FALSE, err |-> "nil", nq |-> 0]

\* the locals of createCall (voiceID and responseCategoryID are nil when 0),
\* its response, and what the request has done so far: the steps it ran, the
\* resolutions that passed (true, or no error), the maps it wrote, those
\* where its write was the first one for the key, its insert attempts, the
\* rows it inserted into calls, and whether one of its lookup queries failed
NoCall ==
    [status |-> 0, error |-> "", voiceID |-> 0, responseCategoryID |-> 0,
     steps |-> <<>>, passed |-> {}, writes |-> {}, firsts |-> {}, inserts |-> 0,
     rows |-> 0, qfail |-> FALSE]

\* the key of mapping m that request r names
KeyOf(r, m) ==
    IF m = "campaigns" THEN r.campaign
    ELSE IF m = "voices" THEN r.voice
    ELSE r.category

\* the key a task resolves in mapping m
Key(t, m) == KeyOf(req[t], m)

\* task u is inside the resolution function of mapping m
InCall(u, m) ==
    /\ pc[u] \in {"rlock", "read", "query", "lock", "write", "ret"}
    /\ loc[u].m = m

\* the tasks other than t that are inside the resolution of key k of mapping m
Others(t, m, k) == {u \in Tasks \ {t} : InCall(u, m) /\ Key(u, m) = k}

\* The history of a run:
\*   logged    the bulk queries of the preload that failed (their error is logged)
\*   unloaded  what each failed bulk query would have loaded
\*   returned  the rows the store returned for the name tables
\*   first     for each key, the first value a resolution wrote
\*   raced     the keys that two tasks resolved at the same time
\*   stale     the keys whose answer changed while cached or being resolved
NoHist ==
    [logged |-> {},
     unloaded |-> [m \in Mappings |-> EmptyMap],
     returned |-> [m \in NameMappings |-> {}],
     first |-> [m \in Mappings |-> EmptyMap],
     raced |-> [m \in Mappings |-> {}],
     stale |-> [m \in Mappings |-> {}]]

Init ==
    /\ db \in Tables
    /\ cache = [responseCategories |-> EmptyMap, voices |-> EmptyMap, campaigns |-> EmptyMap]
    /\ mu = [readers |-> {}, w |-> NoTask]
    /\ mainpc = "preload_rc"
    /\ pc = [t \in Tasks |-> "idle"]
    /\ req = [t \in Tasks |-> NoRequest]
    /\ loc = [t \in Tasks |-> NoLoc]
    /\ cc = [t \in Tasks |-> NoCall]
    /\ nchg = 0
    /\ hist = NoHist

\* ------------------------------------------------------------- preloadCaches
\* Each bulk query either fails (ok is false: the error is logged) or returns
\* the rows of the table, which are written into the map without taking
\* cache.mu.
PreloadResponseCategories(ok) ==
    /\ mainpc = "preload_rc"
    /\ IF ok
        THEN /\ cache' = [cache EXCEPT !.responseCategories =
                            PopulateNames(@, SelectAll(db.responseCategories))]
             /\ hist' = [hist EXCEPT !.returned.responseCategories =
                            @ \cup SelectAll(db.responseCategories)]
        ELSE /\ hist' = [hist EXCEPT !.logged = @ \cup {"responseCategories"},
                                      !.unloaded.responseCategories = db.responseCategories]
             /\ UNCHANGED cache
    /\ mainpc' = "preload_v"
    /\ UNCHANGED <<db, mu, pc, req, loc, cc, nchg>>

\* fault: preloadCaches returns at the first bulk query that failed, so the
\* voices are not loaded after the categories failed
PreloadVoices_AbortAfterFailure(ok) ==
    /\ mainpc = "preload_v"
    /\ IF ok /\ hist.logged = {}
        THEN /\ cache' = [cache EXCEPT !.voices = PopulateNames(@, SelectAll(db.voices))]
             /\ hist' = [hist EXCEPT !.returned.voices = @ \cup SelectAll(db.voices)]
        ELSE /\ hist' = IF ok THEN hist
                         ELSE [hist EXCEPT !.logged = @ \cup {"voices"},
                                           !.unloaded.voices = db.voices]
             /\ UNCHANGED cache
    /\ mainpc' = "preload_c"
    /\ UNCHANGED <<db, mu, pc, req, loc, cc, nchg>>

PreloadVoices(ok) ==
    /\ mainpc = "preload_v"
    /\ IF ok
        THEN /\ cache' = [cache EXCEPT !.voices = PopulateNames(@, SelectAll(db.voices))]
             /\ hist' = [hist EXCEPT !.returned.voices = @ \cup SelectAll(db.voices)]
        ELSE /\ hist' = [hist EXCEPT !.logged = @ \cup {"voices"},
                                      !.unloaded.voices = db.voices]
             /\ UNCHANGED cache
    /\ mainpc' = "preload_c"
    /\ UNCHANGED <<db, mu, pc, req, loc, cc, nchg>>

PreloadCampaigns(ok) ==
    /\ mainpc = "preload_c"
    /\ IF ok
        THEN /\ cache' = [cache EXCEPT !.campaigns =
                            PopulateCampaigns(@, SelectEnabledCampaigns)]
             /\ UNCHANGED hist
        ELSE /\ hist' = [hist EXCEPT !.logged = @ \cup {"campaigns"},
                                      !.unloaded.campaigns =
                                          PopulateCampaigns(EmptyMap, SelectEnabledCampaigns)]
             /\ UNCHANGED cache
    /\ mainpc' = "serve"
    /\ UNCHANGED <<db, mu, pc, req, loc, cc, nchg>>

preloadCaches(ok) ==
    PreloadResponseCategories(ok) \/ PreloadVoices(ok) \/ PreloadCampaigns(ok)


\* fault: a reader that does not take the lock
CanRLock_NoLock == TRUE

\* ------------------------------------------------------------- cache.mu
\* sync.RWMutex: RLock returns when no writer holds the lock, Lock when no
\* writer and no reader holds it.  A call that has to wait is a task whose
\* step is not enabled.
CanRLock == mu.w = NoTask
\* fault: a writer that does not wait for the readers
CanLock_IgnoresReaders == mu.w = NoTask

CanLock == mu.w = NoTask /\ mu.readers = {}

\* ------------------------------------------------------------- resolution
\* The steps below are shared by campaignExists, getVoiceID and
\* getResponseCategoryID, which differ in the map and in the store query.

\* cache.mu.RLock()
RLock(t) ==
    /\ pc[t] = "rlock"
    /\ CanRLock
    /\ mu' = [mu EXCEPT !.readers = @ \cup {t}]
    /\ pc' = [pc EXCEPT ![t] = "read"]
    /\ UNCHANGED <<db, cache, mainpc, req, loc, cc, nchg, hist>>

\* fault: the function tests the cached value instead of found, so that a
\* cached false sends campaignExists to the store again
CacheRead_RequeriesFalse(t) ==
    /\ pc[t] = "read"
    /\ LET m == loc[t].m
           k == Key(t, m)
           found == Has(cache[m], k) /\ (m = "campaigns" => cache[m][k])
       IN /\ loc' = [loc EXCEPT ![t] =
                 IF ~found THEN @
                 ELSE IF m = "campaigns"
                      THEN [@ EXCEPT !.found = TRUE, !.exists = cache[m][k]]
                      ELSE [@ EXCEPT !.found = TRUE, !.id = cache[m][k]]]
          /\ pc' = [pc EXCEPT ![t] = IF found THEN "ret" ELSE "query"]
    /\ mu' = [mu EXCEPT !.readers = @ \ {t}]
    /\ UNCHANGED <<db, cache, mainpc, req, cc, nchg, hist>>

\* fault: defer cache.mu.RUnlock(), so that the read lock is held until the
\* function has returned from its store query
CacheRead_DefersRUnlock(t) ==
    /\ pc[t] = "read"
    /\ LET m == loc[t].m
           k == Key(t, m)
           found == Has(cache[m], k)
       IN /\ loc' = [loc EXCEPT ![t] =
                 IF ~found THEN @
                 ELSE IF m = "campaigns"
                      THEN [@ EXCEPT !.found = TRUE, !.exists = cache[m][k]]
                      ELSE [@ EXCEPT !.found = TRUE, !.id = cache[m][k]]]
          /\ pc' = [pc EXCEPT ![t] = IF found THEN "ret" ELSE "query"]
          /\ mu' = IF found THEN [mu EXCEPT !.readers = @ \ {t}] ELSE mu
    /\ UNCHANGED <<db, cache, mainpc, req, cc, nchg, hist>>

\* v, found := cache.<map>[key]; cache.mu.RUnlock(); if found { return v }
CacheRead(t) ==
    /\ pc[t] = "read"
    /\ LET m == loc[t].m
           k == Key(t, m)
           found == Has(cache[m], k)
       IN /\ loc' = [loc EXCEPT ![t] =
                 IF ~found THEN @
                 ELSE IF m = "campaigns"
                      THEN [@ EXCEPT !.found = TRUE, !.exists = cache[m][k]]
                      ELSE [@ EXCEPT !.found = TRUE, !.id = cache[m][k]]]
          /\ pc' = [pc EXCEPT ![t] = IF found THEN "ret" ELSE "query"]
    /\ mu' = [mu EXCEPT !.readers = @ \ {t}]
    /\ UNCHANGED <<db, cache, mainpc, req, cc, nchg, hist>>

\* fault: exists = count >= 0
CampaignFound_NonNegative(count) == count >= 0

\* exists = count > 0
CampaignFound(count) == count > 0

\* fault: the function does not return at the query error and goes on to
\* cache exists = false
CampaignQuery_CachesFailure(t) ==
    /\ pc[t] = "query"
    /\ loc[t].m = "campaigns"
    /\ \E fails \in BOOLEAN :
        IF fails
        THEN /\ loc' = [loc EXCEPT ![t] = [@ EXCEPT !.err = "conn", !.exists = FALSE,
                                                      !.nq = @ + 1]]
             /\ pc' = [pc EXCEPT ![t] = "lock"]
             /\ cc' = [cc EXCEPT ![t].qfail = TRUE]
        ELSE /\ loc' = [loc EXCEPT ![t] =
                          [@ EXCEPT !.exists = CampaignFound(CountCampaign(Key(t, "campaigns"))),
                                    !.nq = @ + 1]]
             /\ pc' = [pc EXCEPT ![t] = "lock"]
             /\ UNCHANGED cc
    /\ UNCHANGED <<db, cache, mu, mainpc, req, nchg, hist>>

\* campaignExists: the COUNT(*) query; an error is logged and false returned
CampaignQuery(t) ==
    /\ pc[t] = "query"
    /\ loc[t].m = "campaigns"
    /\ \E fails \in BOOLEAN :
        IF fails
        THEN /\ loc' = [loc EXCEPT ![t] = [@ EXCEPT !.err = "conn", !.exists = FALSE,
                                                      !.nq = @ + 1]]
             /\ pc' = [pc EXCEPT ![t] = "ret"]
             /\ cc' = [cc EXCEPT ![t].qfail = TRUE]
        ELSE /\ loc' = [loc EXCEPT ![t] =
                          [@ EXCEPT !.exists = CampaignFound(CountCampaign(Key(t, "campaigns"))),
                                    !.nq = @ + 1]]
             /\ pc' = [pc EXCEPT ![t] = "lock"]
             /\ UNCHANGED cc
    /\ UNCHANGED <<db, cache, mu, mainpc, req, nchg, hist>>

\* fault: the lookup does not return at sql.ErrNoRows and goes on to cache
\* the zero id
NameQuery_CachesMiss(t) ==
    /\ pc[t] = "query"
    /\ loc[t].m \in NameMappings
    /\ LET m == loc[t].m
           k == Key(t, m)
       IN \E fails \in BOOLEAN :
            IF fails
            THEN /\ loc' = [loc EXCEPT ![t] = [@ EXCEPT !.err = "conn", !.nq = @ + 1]]
                 /\ pc' = [pc EXCEPT ![t] = "ret"]
                 /\ cc' = [cc EXCEPT ![t].qfail = TRUE]
                 /\ UNCHANGED hist
            ELSE IF Has(db[m], k)
            THEN /\ loc' = [loc EXCEPT ![t] = [@ EXCEPT !.id = db[m][k], !.nq = @ + 1]]
                 /\ pc' = [pc EXCEPT ![t] = "lock"]
                 /\ hist' = [hist EXCEPT !.returned[m] = @ \cup {[id |-> db[m][k], name |-> k]}]
                 /\ UNCHANGED cc
            ELSE /\ loc' = [loc EXCEPT ![t] = [@ EXCEPT !.err = "norows", !.nq = @ + 1]]
                 /\ pc' = [pc EXCEPT ![t] = "lock"]
                 /\ UNCHANGED <<cc, hist>>
    /\ UNCHANGED <<db, cache, mu, mainpc, req, nchg>>

\* getVoiceID / getResponseCategoryID: SELECT id FROM <table> WHERE name = $1;
\* Scan fails with sql.ErrNoRows when no row has the name, or with the
\* error of a failed query; both are returned as err, with id 0
NameQuery(t) ==
    /\ pc[t] = "query"
    /\ loc[t].m \in NameMappings
    /\ LET m == loc[t].m
           k == Key(t, m)
       IN \E fails \in BOOLEAN :
            IF fails
            THEN /\ loc' = [loc EXCEPT ![t] = [@ EXCEPT !.err = "conn", !.nq = @ + 1]]
                 /\ pc' = [pc EXCEPT ![t] = "ret"]
                 /\ cc' = [cc EXCEPT ![t].qfail = TRUE]
                 /\ UNCHANGED hist
            ELSE IF Has(db[m], k)
            THEN /\ loc' = [loc EXCEPT ![t] = [@ EXCEPT !.id = db[m][k], !.nq = @ + 1]]
                 /\ pc' = [pc EXCEPT ![t] = "lock"]
                 /\ hist' = [hist EXCEPT !.returned[m] = @ \cup {[id |-> db[m][k], name |-> k]}]
                 /\ UNCHANGED cc
            ELSE /\ loc' = [loc EXCEPT ![t] = [@ EXCEPT !.err = "norows", !.nq = @ + 1]]
                 /\ pc' = [pc EXCEPT ![t] = "ret"]
                 /\ UNCHANGED <<cc, hist>>
    /\ UNCHANGED <<db, cache, mu, mainpc, req, nchg>>

\* cache.mu.Lock()
Lock(t) ==
    /\ pc[t] = "lock"
    /\ CanLock
    /\ mu' = [mu EXCEPT !.w = t]
    /\ pc' = [pc EXCEPT ![t] = "write"]
    /\ UNCHANGED <<db, cache, mainpc, req, loc, cc, nchg, hist>>

\* the value the function writes into its map
Written(t) == IF loc[t].m = "campaigns" THEN loc[t].exists ELSE loc[t].id

\* fault: the function unlocks and returns without the assignment to the map
CacheWrite_NoStore(t) ==
    /\ pc[t] = "write"
    /\ mu' = [mu EXCEPT !.w = NoTask]
    /\ pc' = [pc EXCEPT ![t] = "ret"]
    /\ UNCHANGED <<db, cache, mainpc, req, loc, cc, nchg, hist>>

\* fault: the function returns without cache.mu.Unlock()
CacheWrite_NoUnlock(t) ==
    /\ pc[t] = "write"
    /\ LET m == loc[t].m
           k == Key(t, m)
       IN /\ cache' = [cache EXCEPT ![m] = Put(@, k, Written(t))]
          /\ cc' = [cc EXCEPT ![t].writes = @ \cup {m},
                               ![t].firsts = IF Has(hist.first[m], k) THEN @ ELSE @ \cup {m}]
          /\ hist' = IF Has(hist.first[m], k) THEN hist
                      ELSE [hist EXCEPT !.first[m] = Put(@, k, Written(t))]
    /\ pc' = [pc EXCEPT ![t] = "ret"]
    /\ UNCHANGED <<db, mu, mainpc, req, loc, nchg>>

\* cache.<map>[key] = v; cache.mu.Unlock(); return v
CacheWrite(t) ==
    /\ pc[t] = "write"
    /\ LET m == loc[t].m
           k == Key(t, m)
       IN /\ cache' = [cache EXCEPT ![m] = Put(@, k, Written(t))]
          /\ cc' = [cc EXCEPT ![t].writes = @ \cup {m},
                               ![t].firsts = IF Has(hist.first[m], k) THEN @ ELSE @ \cup {m}]
          /\ hist' = IF Has(hist.first[m], k) THEN hist
                      ELSE [hist EXCEPT !.first[m] = Put(@, k, Written(t))]
    /\ mu' = [mu EXCEPT !.w = NoTask]
    /\ pc' = [pc EXCEPT ![t] = "ret"]
    /\ UNCHANGED <<db, mainpc, req, loc, nchg>>

campaignExists(t) ==
    /\ loc[t].m = "campaigns"
    /\ RLock(t) \/ CacheRead(t) \/ CampaignQuery(t) \/ Lock(t) \/ CacheWrite(t)

getVoiceID(t) ==
    /\ loc[t].m = "voices"
    /\ RLock(t) \/ CacheRead(t) \/ NameQuery(t) \/ Lock(t) \/ CacheWrite(t)

getResponseCategoryID(t) ==
    /\ loc[t].m = "responseCategories"
    /\ RLock(t) \/ CacheRead(t) \/ NameQuery(t) \/ Lock(t) \/ CacheWrite(t)


\* ------------------------------------------------------------- createCall
\* a *string field is resolved when it is not nil and not empty
Supplied(name) == name # NilStr /\ name # ""

\* what createCall does after the campaign check, and after the voice
AfterVoice(r) == IF Supplied(r.category) THEN "responseCategories" ELSE "insert"
\* fault: the test of the voice name without *req.VoiceName != ""
AfterCampaign_NilOnly(r) == IF r.voice # NilStr THEN "voices" ELSE AfterVoice(r)

AfterCampaign(r) == IF Supplied(r.voice) THEN "voices" ELSE AfterVoice(r)

\* the request with the fields read by the time the campaign has passed: the
\* voice name and, when no voice is to be resolved, the category name
ReadVoice(r) ==
    {[r EXCEPT !.voice = v, !.category = c] :
        v \in Voices, c \in Categories} \ 
    {x \in [number : Numbers, campaign : CampaignIds, voice : Voices, category : Categories] :
        Supplied(x.voice) /\ x.category # NilStr}

\* the request with the category name read after the voice has been resolved
ReadCategory(r) == {[r EXCEPT !.category = c] : c \in Categories}

\* return c.JSON(status, error)
Reply(t, status, error) ==
    /\ pc' = [pc EXCEPT ![t] = "done"]
    /\ loc' = [loc EXCEPT ![t] = NoLoc]
    /\ cc' = [cc EXCEPT ![t] = [@ EXCEPT !.status = status, !.error = error]]
    /\ UNCHANGED hist

\* createCall goes on to its next step: the call of a resolution function for
\* request r, or the insert; c is the task's createCall record before the step
Proceed(t, r, nxt, c) ==
    /\ pc' = [pc EXCEPT ![t] = IF nxt = "insert" THEN "insert" ELSE "rlock"]
    /\ loc' = [loc EXCEPT ![t] = IF nxt = "insert" THEN NoLoc ELSE [NoLoc EXCEPT !.m = nxt]]
    /\ cc' = [cc EXCEPT ![t] = [c EXCEPT !.steps = Append(@, nxt)]]
    /\ hist' = IF nxt # "insert" /\ Others(t, nxt, KeyOf(r, nxt)) # {}
               THEN [hist EXCEPT !.raced[nxt] = @ \cup {KeyOf(r, nxt)}]
               ELSE hist

\* fault: the listener is started before preloadCaches has returned
Bind_BeforePreload(t) ==
    /\ pc[t] = "idle"
    /\ \A u \in Tasks : u < t => pc[u] # "idle"
    /\ \E bound \in BOOLEAN, n \in Numbers, id \in CampaignIds :
      LET r == [NoRequest EXCEPT !.number = n, !.campaign = id] IN
        IF ~bound
        THEN /\ Reply(t, StatusBadRequest, "Invalid request")
             /\ UNCHANGED req
        ELSE /\ req' = [req EXCEPT ![t] = r]
             /\ IF r.number = ""
                THEN Reply(t, StatusBadRequest, "Number is required")
                ELSE Proceed(t, r, "campaigns", [cc[t] EXCEPT !.steps = <<"number">>])
    /\ UNCHANGED <<db, cache, mu, mainpc, nchg>>

\* a request arrives once the listener has started; c.Bind and the check of
\* req.Number, then the call of campaignExists
Bind(t) ==
    /\ mainpc = "serve"
    /\ pc[t] = "idle"
    /\ \A u \in Tasks : u < t => pc[u] # "idle"
    /\ \E bound \in BOOLEAN, n \in Numbers, id \in CampaignIds :
      LET r == [NoRequest EXCEPT !.number = n, !.campaign = id] IN
        IF ~bound
        THEN /\ Reply(t, StatusBadRequest, "Invalid request")
             /\ UNCHANGED req
        ELSE /\ req' = [req EXCEPT ![t] = r]
             /\ IF r.number = ""
                THEN Reply(t, StatusBadRequest, "Number is required")
                ELSE Proceed(t, r, "campaigns", [cc[t] EXCEPT !.steps = <<"number">>])
    /\ UNCHANGED <<db, cache, mu, mainpc, nchg>>

\* if !campaignExists(req.ClientCampaignModelID) { return 400 }
CheckCampaign(t) ==
    /\ pc[t] = "ret"
    /\ loc[t].m = "campaigns"
    /\ IF ~loc[t].exists
       THEN /\ Reply(t, StatusBadRequest, "Invalid client_campaign_model_id")
            /\ UNCHANGED req
       ELSE \E r \in ReadVoice(req[t]) :
            /\ req' = [req EXCEPT ![t] = r]
            /\ Proceed(t, r, AfterCampaign(r), [cc[t] EXCEPT !.passed = @ \cup {"campaigns"}])
    /\ UNCHANGED <<db, cache, mu, mainpc, nchg>>

\* fault: createCall ignores the error of getVoiceID
CheckVoice_IgnoresError(t) ==
    /\ pc[t] = "ret"
    /\ loc[t].m = "voices"
    /\ \E r \in ReadCategory(req[t]) :
            /\ req' = [req EXCEPT ![t] = r]
            /\ Proceed(t, r, AfterVoice(r),
                       [cc[t] EXCEPT !.voiceID = loc[t].id,
                                     !.passed = IF loc[t].err = "nil"
                                                THEN @ \cup {"voices"} ELSE @])
    /\ UNCHANGED <<db, cache, mu, mainpc, nchg>>

\* id, err := getVoiceID(*req.VoiceName); if err != nil { return 400 }; voiceID = &id
CheckVoice(t) ==
    /\ pc[t] = "ret"
    /\ loc[t].m = "voices"
    /\ IF loc[t].err # "nil"
       THEN /\ Reply(t, StatusBadRequest, "Voice doesn't exist")
            /\ UNCHANGED req
       ELSE \E r \in ReadCategory(req[t]) :
            /\ req' = [req EXCEPT ![t] = r]
            /\ Proceed(t, r, AfterVoice(r),
                       [cc[t] EXCEPT !.voiceID = loc[t].id, !.passed = @ \cup {"voices"}])
    /\ UNCHANGED <<db, cache, mu, mainpc, nchg>>

\* id, err := getResponseCategoryID(*req.ResponseCategoryName); if err != nil { return 400 }
CheckCategory(t) ==
    /\ pc[t] = "ret"
    /\ loc[t].m = "responseCategories"
    /\ IF loc[t].err # "nil"
       THEN Reply(t, StatusBadRequest, "Response category doesn't exist")
       ELSE Proceed(t, req[t], "insert",
                    [cc[t] EXCEPT !.responseCategoryID = loc[t].id,
                                  !.passed = @ \cup {"responseCategories"}])
    /\ UNCHANGED <<db, cache, mu, mainpc, req, nchg>>

\* fault: the handler tries the insert again after a failure
Insert_Retries(t) ==
    /\ pc[t] = "insert"
    /\ \E ok \in BOOLEAN :
        IF ok
        THEN /\ cc' = [cc EXCEPT ![t] = [@ EXCEPT !.inserts = @ + 1, !.rows = @ + 1,
                                                  !.status = StatusCreated, !.error = ""]]
             /\ pc' = [pc EXCEPT ![t] = "done"]
        ELSE /\ cc' = [cc EXCEPT ![t] = [@ EXCEPT !.inserts = @ + 1]]
             /\ pc' = pc
    /\ UNCHANGED <<db, cache, mu, mainpc, req, loc, nchg, hist>>

\* INSERT INTO calls ... RETURNING id, timestamp
Insert(t) ==
    /\ pc[t] = "insert"
    /\ \E ok \in BOOLEAN :
        IF ok
        THEN cc' = [cc EXCEPT ![t] = [@ EXCEPT !.inserts = @ + 1, !.rows = @ + 1,
                                               !.status = StatusCreated, !.error = ""]]
        ELSE cc' = [cc EXCEPT ![t] = [@ EXCEPT !.inserts = @ + 1,
                                               !.status = StatusInternalServerError,
                                               !.error = "Failed to save call"]]
    /\ pc' = [pc EXCEPT ![t] = "done"]
    /\ UNCHANGED <<db, cache, mu, mainpc, req, loc, nchg, hist>>

\* the response is sent and the task ends
Respond(t) ==
    /\ pc[t] = "done"
    /\ pc' = [pc EXCEPT ![t] = "ended"]
    /\ req' = [req EXCEPT ![t] = NoRequest]
    /\ cc' = [cc EXCEPT ![t] = NoCall]
    /\ UNCHANGED <<db, cache, mu, mainpc, loc, nchg, hist>>

createCall(t) ==
    Bind(t) \/ CheckCampaign(t) \/ CheckVoice(t) \/ CheckCategory(t) \/ Insert(t) \/ Respond(t)

\* ------------------------------------------------------------- environment
\* what a point query for key k of mapping m answers on table contents d
Answer(d, m, k) ==
    IF m = "campaigns" THEN [found |-> TRUE, v |-> IF Has(d[m], k) THEN 1 ELSE 0]
    ELSE IF Has(d[m], k) THEN [found |-> TRUE, v |-> d[m][k]]
    ELSE [found |-> FALSE, v |-> 0]

\* Another client of the database inserts, updates or deletes a row of a
\* lookup table.  The key becomes stale when its answer changes while it is
\* cached or while a task is resolving it.  A change made before or during
\* the preload leads to a state that a different initial store, or the same
\* change made right after the preload, leads to as well, so changes are
\* taken from the end of the preload on.
ChangeTable(m, k, newTable) ==
    /\ mainpc = "serve"
    /\ nchg < MaxStoreChanges
    /\ newTable # db[m]
    /\ db' = [db EXCEPT ![m] = newTable]
    /\ nchg' = nchg + 1
    /\ hist' = IF /\ Answer(db', m, k) # Answer(db, m, k)
                  /\ (Has(cache[m], k) \/ \E u \in Tasks : InCall(u, m) /\ Key(u, m) = k)
               THEN [hist EXCEPT !.stale[m] = @ \cup {k}]
               ELSE hist
    /\ UNCHANGED <<cache, mu, mainpc, pc, req, loc, cc>>

StoreChange ==
    \/ \E k \in CampaignIds, e \in BOOLEAN : ChangeTable("campaigns", k, Put(db.campaigns, k, e))
    \/ \E k \in CampaignIds : ChangeTable("campaigns", k, Del(db.campaigns, k))
    \/ \E k \in VoiceNames, i \in Ids : ChangeTable("voices", k, Put(db.voices, k, i))
    \/ \E k \in VoiceNames : ChangeTable("voices", k, Del(db.voices, k))
    \/ \E k \in CategoryNames, i \in Ids :
          ChangeTable("responseCategories", k, Put(db.responseCategories, k, i))
    \/ \E k \in CategoryNames :
          ChangeTable("responseCategories", k, Del(db.responseCategories, k))

\* ------------------------------------------------------------- specification
\* a step of a request task
Request(t) ==
    createCall(t) \/ campaignExists(t) \/ getVoiceID(t) \/ getResponseCategoryID(t)

\* no request other than t's is being served
Alone(t) == \A u \in Tasks \ {t} : pc[u] \in {"idle", "ended"}

\* Concurrent requests: the tasks interleave freely, the store's tables
\* change and its queries fail at any time; the store answers the three bulk
\* queries of the startup.
Next ==
    \/ preloadCaches(TRUE)
    \/ \E t \in Tasks : Request(t)
    \/ StoreChange

Spec == Init /\ [][Next]_vars

\* Requests served one at a time: any of the bulk queries of the startup may
\* fail as well.
NextSerial ==
    \/ \E ok \in BOOLEAN : preloadCaches(ok)
    \/ \E t \in Tasks : Alone(t) /\ Request(t)
    \/ StoreChange

SpecSerial == Init /\ [][NextSerial]_vars

\* ------------------------------------------------------------- properties
Keys(m) ==
    IF m = "campaigns" THEN CampaignIds
    ELSE IF m = "voices" THEN VoiceNames
    ELSE CategoryNames

\* task t has returned from the resolution function of mapping m and
\* createCall has not yet looked at the result
AtRet(t, m) == pc[t] = "ret" /\ loc[t].m = m

\* the value the resolution function returns
Returned(t) == IF loc[t].m = "campaigns" THEN loc[t].exists ELSE loc[t].id

\* the store holds a value for key k of mapping m (a count, for a campaign)
Known(m, k) == m = "campaigns" \/ Has(db[m], k)
StoreValue(m, k) == IF m = "campaigns" THEN Has(db.campaigns, k) ELSE db[m][k]

\* the startup is over and nothing has happened since
JustStarted == mainpc = "serve" /\ nchg = 0 /\ \A t \in Tasks : pc[t] = "idle"

\* C1: for a key that no two tasks ever resolved at the same time: a call that
\* hits the cache issues no store query; a call that misses and is answered by
\* the store issues exactly one query, is the first to write the key and
\* leaves its value in the map; and every call after that first write finds
\* the key, issues no query and returns the value first written, whatever the
\* store holds by then.
C1_FirstThenCached ==
    \A t \in Tasks, m \in Mappings :
        (AtRet(t, m) /\ Key(t, m) \notin hist.raced[m]) =>
            LET k == Key(t, m) IN
            /\ loc[t].found => loc[t].nq = 0
            /\ (~loc[t].found /\ loc[t].err = "nil") =>
                   /\ loc[t].nq = 1
                   /\ m \in cc[t].firsts
                   /\ Has(cache[m], k) /\ cache[m][k] = Returned(t)
                   /\ hist.first[m][k] = Returned(t)
            /\ (Has(hist.first[m], k) /\ m \notin cc[t].firsts) =>
                   /\ loc[t].found /\ loc[t].nq = 0 /\ loc[t].err = "nil"
                   /\ Returned(t) = hist.first[m][k]

\* a later campaignExists returns the cached false although the campaign has
\* been created in the meantime
C1_Witness ==
    \E t \in Tasks :
        /\ AtRet(t, "campaigns")
        /\ Key(t, "campaigns") \notin hist.raced.campaigns
        /\ Has(hist.first.campaigns, Key(t, "campaigns"))
        /\ "campaigns" \notin cc[t].firsts
        /\ loc[t].found /\ loc[t].exists = FALSE
        /\ Has(db.campaigns, Key(t, "campaigns"))

\* C2: once campaignExists has written campaigns[id] = false for a campaign
\* the store confirmed absent, the entry stays false, so that every later
\* campaignExists(id) returns false from the cache.
C2_NegativeStays ==
    \A k \in DOMAIN hist.first.campaigns :
        hist.first.campaigns[k] = FALSE =>
            Has(cache.campaigns, k) /\ cache.campaigns[k] = FALSE

\* C3: a name lookup that gets no row returns an error and id 0 and writes
\* nothing; the name maps only hold rows the store returned; a call that
\* misses the cache queries the store once and returns the row it got.
C3_NoPoisoning ==
    /\ \A m \in NameMappings : \A k \in DOMAIN cache[m] :
           [id |-> cache[m][k], name |-> k] \in hist.returned[m]
    /\ \A t \in Tasks, m \in NameMappings :
           AtRet(t, m) =>
               /\ loc[t].err # "nil" =>
                      loc[t].id = 0 /\ ~loc[t].found /\ loc[t].nq = 1 /\ m \notin cc[t].writes
               /\ (~loc[t].found /\ loc[t].err = "nil") =>
                      /\ loc[t].nq = 1 /\ m \in cc[t].writes
                      /\ [id |-> loc[t].id, name |-> Key(t, m)] \in hist.returned[m]

\* a request was rejected because the name had no row, and a later lookup of
\* the same name found the row created in the meantime
C3_Witness ==
    \E t1, t2 \in Tasks, m \in NameMappings :
        /\ pc[t1] = "done" /\ cc[t1].status = StatusBadRequest /\ ~cc[t1].qfail
        /\ Supplied(Key(t1, m)) /\ m \notin cc[t1].passed /\ cc[t1].steps[Len(cc[t1].steps)] = m
        /\ AtRet(t2, m) /\ Key(t2, m) = Key(t1, m)
        /\ ~loc[t2].found /\ loc[t2].err = "nil"

\* C4: for a key whose answer has not changed while it was cached or being
\* resolved: the entry of the key, once there, holds the store's value, and
\* every call that returns without error, however the calls interleave,
\* returns the store's value and leaves the entry in the map.
C4_ConcurrentSameKey ==
    \A m \in Mappings : \A k \in Keys(m) \ hist.stale[m] :
        /\ Has(cache[m], k) => Known(m, k) /\ cache[m][k] = StoreValue(m, k)
        /\ \A t \in Tasks :
               (AtRet(t, m) /\ Key(t, m) = k /\ loc[t].err = "nil") =>
                   /\ Known(m, k) /\ Returned(t) = StoreValue(m, k)
                   /\ Has(cache[m], k)

\* two tasks missed the cache for the same key, both queried the store and
\* both have written the entry
C4_Witness ==
    \E t1, t2 \in Tasks, m \in Mappings :
        /\ t1 # t2
        /\ AtRet(t1, m) /\ AtRet(t2, m) /\ Key(t1, m) = Key(t2, m)
        /\ Key(t1, m) \notin hist.stale[m]
        /\ ~loc[t1].found /\ loc[t1].err = "nil"
        /\ ~loc[t2].found /\ loc[t2].err = "nil"

C6_StoreFailureIs500 ==
    \A t \in Tasks :
        (pc[t] = "done" /\ cc[t].qfail) => cc[t].status = StatusInternalServerError

\* C7: the first on-demand campaignExists of a campaign that is in the store
\* but disabled returns false and caches false.
C7_DisabledRejected ==
    \A t \in Tasks :
        LET k == Key(t, "campaigns") IN
        (/\ AtRet(t, "campaigns") /\ ~loc[t].found /\ loc[t].err = "nil"
         /\ k \notin hist.stale.campaigns
         /\ Has(db.campaigns, k) /\ db.campaigns[k] = FALSE) =>
            loc[t].exists = FALSE /\ cache.campaigns[k] = FALSE

Preloaded(m) ==
    IF m = "campaigns"
    THEN [k \in {i \in DOMAIN db.campaigns : db.campaigns[i]} |-> TRUE]
    ELSE db[m]

\* the row of key k that a successful preload would have loaded into mapping
\* m is in the store as it was at startup
RowUnchanged(m, k) ==
    IF m = "campaigns" THEN Has(db.campaigns, k)
    ELSE Has(db[m], k) /\ db[m][k] = hist.unloaded[m][k]

\* C9 as stated: in a mapping whose bulk query failed, an on-demand resolution
\* of a key the preload would have loaded, whose query the store answers,
\* returns what the preload would have cached.
C9_DegradedSameResults ==
    \A t \in Tasks, m \in hist.logged :
        (AtRet(t, m) /\ Has(hist.unloaded[m], Key(t, m)) /\ loc[t].err # "conn") =>
            loc[t].err = "nil" /\ Returned(t) = hist.unloaded[m][Key(t, m)]

\* C9, amended: each bulk query fails on its own: the startup ends with the
\* failed mappings empty and the others populated; a hit in a failed mapping
\* is an entry some resolution wrote; and a resolution that the store answers
\* for a key whose row is as it was at startup returns what the preload would
\* have cached.
C9_PartialPreload ==
    /\ JustStarted =>
           \A m \in Mappings :
               cache[m] = IF m \in hist.logged THEN EmptyMap ELSE Preloaded(m)
    /\ \A t \in Tasks, m \in hist.logged :
           AtRet(t, m) =>
               LET k == Key(t, m) IN
               /\ loc[t].found => Has(hist.first[m], k)
               /\ (/\ Has(hist.unloaded[m], k) /\ loc[t].err = "nil"
                   /\ k \notin hist.stale[m] /\ RowUnchanged(m, k)) =>
                      Returned(t) = hist.unloaded[m][k]

\* the bulk query of one mapping failed and another mapping was populated,
\* and a resolution in the failed mapping has fetched the key the preload
\* missed
C9_Witness ==
    \E t \in Tasks, m \in hist.logged, m2 \in Mappings \ hist.logged :
        /\ cache[m2] # EmptyMap
        /\ AtRet(t, m) /\ Has(hist.unloaded[m], Key(t, m))
        /\ ~loc[t].found /\ loc[t].err = "nil"
        /\ Returned(t) = hist.unloaded[m][Key(t, m)]

\* the checks a request has passed allow the insert
ChecksPassed(t) ==
    /\ req[t].number # ""
    /\ "campaigns" \in cc[t].passed
    /\ Supplied(req[t].voice) => "voices" \in cc[t].passed
    /\ Supplied(req[t].category) => "responseCategories" \in cc[t].passed

\* C10: the insert is attempted only for a request with a number, an existing
\* campaign and, where a name is supplied, a resolved name; a request answered
\* 400 has attempted no insert and written no row; and a request rejected for
\* its voice has written nothing to the voices map.
C10_InsertGuard ==
    \A t \in Tasks :
        /\ (pc[t] = "insert" \/ cc[t].inserts > 0) => ChecksPassed(t)
        /\ cc[t].status = StatusBadRequest => cc[t].inserts = 0 /\ cc[t].rows = 0
        /\ (cc[t].status = StatusBadRequest /\ cc[t].error = "Voice doesn't exist") =>
               "voices" \notin cc[t].writes /\ "voices" \notin cc[t].passed

\* a request whose campaign was resolved and cached is rejected for its voice,
\* which has no row
C10_Witness ==
    \E t \in Tasks :
        /\ pc[t] = "done" /\ cc[t].status = StatusBadRequest
        /\ cc[t].error = "Voice doesn't exist" /\ ~cc[t].qfail
        /\ "campaigns" \in cc[t].writes
        /\ ~Has(db.voices, req[t].voice)
        /\ cc[t].inserts = 0

\* C11: preloadCaches runs once, in the order categories, voices, campaigns,
\* and is over before the listener starts: no step of a request task is
\* taken before the end of the preload, the preload takes no step afterwards,
\* and once requests are served only a task at its cache write changes a map.
C11_PreloadBeforeServing ==
    [][/\ (pc' # pc \/ loc' # loc \/ req' # req) => mainpc = "serve"
       /\ mainpc' # mainpc =>
              <<mainpc, mainpc'>> \in {<<"preload_rc", "preload_v">>,
                                       <<"preload_v", "preload_c">>,
                                       <<"preload_c", "serve">>}
       /\ (mainpc = "serve" /\ cache' # cache) =>
              \E t \in Tasks : pc[t] = "write" /\ pc'[t] = "ret"]_vars

\* a request is served from an entry the preload wrote
C11_Witness ==
    /\ mainpc = "serve"
    /\ \E t \in Tasks, m \in Mappings :
           /\ AtRet(t, m) /\ loc[t].found
           /\ ~Has(hist.first[m], Key(t, m))

\* C12: once a map contains (K, V) it contains (K, V) in every later state:
\* no step deletes an entry or replaces its value.
C12_EntryStability ==
    [][\A m \in Mappings : \A k \in DOMAIN cache[m] :
           Has(cache'[m], k) /\ cache'[m][k] = cache[m][k]]_vars

\* C13: a key that a task has written is in the map from the end of that
\* write (the step that also releases the write lock) on; a cache read that
\* finds the key returns the value the map holds, without a store query; a
\* cache read goes on to the store query only if it finds nothing, which
\* means that no write of the key was completed before it; and only a call
\* whose read found nothing ever queries the store.
C13_WriteVisibility ==
    /\ [](/\ \A m \in Mappings : \A k \in DOMAIN hist.first[m] : Has(cache[m], k)
          /\ \A t \in Tasks :
                 /\ pc[t] \in {"query", "lock", "write"} => ~loc[t].found
                 /\ loc[t].nq > 0 => ~loc[t].found
                 /\ loc[t].found => loc[t].nq = 0 /\ pc[t] = "ret")
    /\ [][\A t \in Tasks :
              (pc[t] = "read" /\ pc'[t] # "read") =>
                  LET m == loc[t].m
                      k == Key(t, m)
                  IN IF Has(cache[m], k)
                     THEN /\ pc'[t] = "ret" /\ loc'[t].found /\ loc'[t].nq = 0
                          /\ Returned(t)' = cache[m][k]
                     ELSE /\ pc'[t] = "query" /\ ~loc'[t].found
                          /\ ~Has(hist.first[m], k)]_vars

\* two calls for the same key overlap: one misses, queries the store and
\* writes the key, and the other, whose read comes after that write, returns
\* the value from the cache without a query
C13_Witness ==
    \E t, u \in Tasks, m \in Mappings :
        /\ t # u
        /\ AtRet(t, m) /\ loc[t].found /\ loc[t].nq = 0
        /\ Key(t, m) \in hist.raced[m]
        /\ Has(hist.first[m], Key(t, m)) /\ Returned(t) = cache[m][Key(t, m)]
        /\ req[u] # NoRequest /\ Key(u, m) = Key(t, m) /\ m \in cc[u].firsts

\* C14: a write to a map never overlaps another access of that map: a task
\* reads a map only while it holds the read lock and no writer does, writes
\* only while it is the one writer and there is no reader, and the unlocked
\* writes of preloadCaches happen while no request task has started.
C14_DataRaceFree ==
    /\ \A t \in Tasks :
           /\ pc[t] = "read" => t \in mu.readers /\ mu.w = NoTask
           /\ pc[t] = "write" => mu.w = t /\ mu.readers = {}
    /\ \A t, u \in Tasks :
           (t # u /\ pc[t] = "write" /\ loc[u].m = loc[t].m) =>
               pc[u] \notin {"read", "write"}
    /\ mainpc # "serve" => \A t \in Tasks : pc[t] = "idle"

\* a task is writing a map while another task, which is about to write the
\* same map, waits for the lock
C14_Witness ==
    \E t, u \in Tasks :
        /\ t # u
        /\ pc[t] = "write" /\ pc[u] = "lock" /\ loc[u].m = loc[t].m
        /\ ~CanLock

\* C15: a task holds the cache lock only at its map access: during its store
\* calls (the per-key query and the insert) it holds the lock in neither
\* mode, so that the lock is free whenever no task is at a map access.
C15_NoLockDuringStoreCall ==
    /\ \A t \in Tasks :
           pc[t] \in {"query", "insert"} => t \notin mu.readers /\ mu.w # t
    /\ \A t \in mu.readers : pc[t] = "read"
    /\ mu.w # NoTask => pc[mu.w] = "write"
    /\ (\A t \in Tasks : pc[t] \notin {"read", "write"}) => CanLock

\* a task is at its store query while another task holds the write lock,
\* which it got without waiting for the query
C15_Witness ==
    \E t, u \in Tasks :
        /\ t # u
        /\ pc[t] = "query" /\ pc[u] = "write" /\ mu.w = u

\* the steps of createCall, in the order of the code
StepOrder == <<"number", "campaigns", "voices", "responseCategories", "insert">>
Pos(s) == CHOOSE i \in 1..Len(StepOrder) : StepOrder[i] = s
Started(t) == {cc[t].steps[i] : i \in 1..Len(cc[t].steps)}

\* C16: the steps a request has run are in the order number check, campaign,
\* voice, category, insert, and each was reached only past the earlier ones:
\* nothing runs for an empty number, a rejected campaign resolves no name, a
\* rejected voice resolves no category, a name is resolved only if supplied
\* and non-empty, and every cache write of the request belongs to a step it
\* ran.
C16_StepOrder ==
    \A t \in Tasks :
        LET steps == cc[t].steps IN
        /\ \A i \in 1..(Len(steps) - 1) : Pos(steps[i]) < Pos(steps[i + 1])
        /\ steps # <<>> => steps[1] = "number" /\ req[t].number # ""
        /\ Len(steps) >= 2 => steps[2] = "campaigns"
        /\ Started(t) \ {"number", "campaigns"} # {} => "campaigns" \in cc[t].passed
        /\ "voices" \in Started(t) => Supplied(req[t].voice)
        /\ "responseCategories" \in Started(t) => Supplied(req[t].category)
        /\ (Started(t) \cap {"responseCategories", "insert"} # {} /\ Supplied(req[t].voice)) =>
               "voices" \in cc[t].passed
        /\ ("insert" \in Started(t) /\ Supplied(req[t].category)) =>
               "responseCategories" \in cc[t].passed
        /\ cc[t].passed \cup cc[t].writes \subseteq Started(t)
        /\ loc[t].m # "" => loc[t].m = steps[Len(steps)]
        /\ cc[t].error \in {"Invalid request", "Number is required"} =>
               steps = <<>> /\ cc[t].writes = {} /\ ~cc[t].qfail
        /\ cc[t].error = "Invalid client_campaign_model_id" =>
               steps = <<"number", "campaigns">>
        /\ cc[t].error = "Voice doesn't exist" =>
               steps = <<"number", "campaigns", "voices">>

\* a request with an empty voice name and a category name is inserted: the
\* voice resolution was skipped
C16_Witness ==
    \E t \in Tasks :
        /\ pc[t] = "done" /\ cc[t].status = StatusCreated
        /\ req[t].voice = ""
        /\ cc[t].steps = <<"number", "campaigns", "responseCategories", "insert">>

\* C17: a request attempts the insert at most once and is answered right
\* after the attempt: 500 after a failed attempt, with no row written and the
\* keys that the request wrote still in the cache, and 201 after a successful
\* one, with exactly one row written.
C17_SingleInsert ==
    \A t \in Tasks :
        /\ cc[t].inserts <= 1 /\ cc[t].rows <= cc[t].inserts
        /\ cc[t].inserts = 1 => pc[t] = "done"
        /\ cc[t].status = StatusInternalServerError =>
               /\ cc[t].inserts = 1 /\ cc[t].rows = 0
               /\ \A m \in cc[t].writes : Has(cache[m], Key(t, m))
        /\ cc[t].status = StatusCreated => cc[t].inserts = 1 /\ cc[t].rows = 1

\* a request that wrote a cache entry is answered 500 after its insert failed
C17_Witness ==
    \E t \in Tasks :
        /\ pc[t] = "done" /\ cc[t].status = StatusInternalServerError
        /\ cc[t].writes # {}
        /\ \A m \in cc[t].writes : Has(cache[m], Key(t, m))

\* C18: a campaignExists whose store query failed returns false and has not
\* written the campaigns map, so the id is not in the map afterwards unless
\* an overlapping call wrote it; a false entry is always the answer of a
\* query; and a call that misses the cache and whose query the store answers
\* returns whether the campaign exists.
C18_FailureNotCached ==
    /\ \A t \in Tasks :
           LET k == Key(t, "campaigns") IN
           /\ (AtRet(t, "campaigns") /\ loc[t].err # "nil") =>
                  /\ loc[t].exists = FALSE /\ ~loc[t].found /\ loc[t].nq = 1
                  /\ "campaigns" \notin cc[t].writes
                  /\ k \notin hist.raced.campaigns => ~Has(cache.campaigns, k)
           /\ (/\ AtRet(t, "campaigns") /\ ~loc[t].found /\ loc[t].err = "nil"
               /\ k \notin hist.stale.campaigns) =>
                  loc[t].nq = 1 /\ loc[t].exists = Has(db.campaigns, k)
    /\ \A k \in DOMAIN cache.campaigns :
           cache.campaigns[k] = FALSE => Has(hist.first.campaigns, k)

\* a request was rejected because the campaign query failed, and another call
\* for the same campaign has queried the store again and returns true
C18_Witness ==
    \E t, u \in Tasks :
        /\ pc[t] = "done" /\ cc[t].qfail
        /\ cc[t].error = "Invalid client_campaign_model_id"
        /\ AtRet(u, "campaigns") /\ Key(u, "campaigns") = Key(t, "campaigns")
        /\ ~loc[u].found /\ loc[u].nq = 1 /\ loc[u].exists

\* Concurrent requests under a fair scheduler: the startup and every request
\* task keep taking steps while they can, and every store call returns (a
\* store call is one step).  The store's tables are any of the initial ones
\* and stay as they are: no step of a task waits for the store's contents.
NextFair ==
    \/ preloadCaches(TRUE)
    \/ \E t \in Tasks : Request(t)

SpecFair ==
    /\ Init /\ [][NextFair]_vars
    /\ WF_vars(preloadCaches(TRUE))
    /\ \A t \in Tasks : WF_vars(Request(t))

\* a task inside a resolution function, before its return
Resolving(t) == pc[t] \in {"rlock", "read", "query", "lock", "write"}

\* C19: every call of a resolution function returns and every request that
\* has arrived is answered; and whenever a task waits for the cache lock, the
\* lock is held by a task at its map access, whose next step needs no lock
\* and releases it.
C19_Progress ==
    /\ \A t \in Tasks : Resolving(t) ~> pc[t] = "ret"
    /\ \A t \in Tasks : (pc[t] \notin {"idle", "done", "ended"}) ~> pc[t] = "done"
    /\ [](\A t \in Tasks :
             /\ (pc[t] = "rlock" /\ ~CanRLock) => pc[mu.w] = "write"
             /\ (pc[t] = "lock" /\ ~CanLock) =>
                    \/ mu.w # NoTask /\ mu.w # t /\ pc[mu.w] = "write"
                    \/ \E u \in mu.readers : u # t /\ pc[u] = "read")

\* a task waits to write while another task holds the read lock
C19_Witness ==
    \E t, u \in Tasks :
        /\ t # u
        /\ pc[t] = "lock" /\ ~CanLock
        /\ pc[u] = "read" /\ u \in mu.readers

=============================================================================
